---------------------------- MODULE Spec2Model ----------------------------
(***************************************************************************)
(* A model of falconnr: the parameter builder (LshParameterSetter), the    *)
(* index wrapper (LshNnTable) and the probe calibration                    *)
(* (LshNnTable::tuneNumProbes), on top of the external FALCONN engine.     *)
(*                                                                         *)
(* The FALCONN engine is not part of the repository.  Its hash table is    *)
(* modelled as a fixed map from (query, probe count) to a candidate list   *)
(* of 0-based point indices, drawn from a small family that contains       *)
(* monotone and non-monotone tables, duplicates and empty results.         *)
(***************************************************************************)
EXTENDS Integers, Sequences, FiniteSets

VARIABLES setter, table, engine, last, tune, built

vars == <<setter, table, engine, last, tune, built>>

---------------------------------------------------------------------------
(* Bounds of the model *)

\* largest probe count for which the engine table is enumerated
MaxProbes == 8

\* largest init_num_probes passed to tuneNumProbes
MaxInit == 2

\* largest finite max_iterations passed to tuneNumProbes
MaxBudget == 2

\* largest number of builder methods called on one builder
MaxSetterCalls == 3

\* default of max_iterations: "no limit"
kNoLimit == -1

\* number of points of the indexed data set (0-based engine indices 0..NumPoints-1)
NumPoints == 3

---------------------------------------------------------------------------
(* The external engine: hash table contents *)

\* validation / query points known to the model; query q is nearest to
\* the data point with 0-based index q
Queries == {1, 2}

\* probe counts at which the table of query 1 may miss its bucket (0: never)
DipProbes == {0, 3}

\* how many probes later than query 1 the query 2 finds its nearest point
Gaps == {0, 2}

\* One engine table: the first probe count at which a query finds its
\* nearest point (MaxProbes + 1: never within the enumerated range), the
\* gap of query 2 and the dip of query 1.
EngineTables ==
    [from : 1..(MaxProbes + 1), gap : Gaps, dip : DipProbes]

\* first probe count at which the query's nearest point is a candidate
FoundFrom(eng, query) ==
    IF query = 1 THEN eng.from ELSE eng.from + eng.gap

\* _table->get_candidates_with_duplicates(query, &candidates):
\* 0-based indices, the point 0 from a colliding bucket, the nearest point
\* once it is probed, and a second time when a second table finds it.
get_candidates_with_duplicates(eng, query, probes) ==
    LET miss  == query = 1 /\ probes = eng.dip
        found == probes >= FoundFrom(eng, query) /\ ~miss
        twice == probes >= FoundFrom(eng, query) + 1 /\ ~miss
    IN  (IF found THEN <<query>> ELSE <<>>)
        \o (IF miss THEN <<>> ELSE <<0>>)
        \o (IF twice THEN <<query>> ELSE <<>>)

---------------------------------------------------------------------------
(* LshNnTable::computeProbePrecision *)

\* an inner loop without the break: one per occurrence of the answer
RECURSIVE MatchEvery(_, _, _)
MatchEvery(candidates, answer, i) ==
    IF i > Len(candidates) THEN 0
    ELSE (IF candidates[i] = answer THEN 1 ELSE 0)
         + MatchEvery(candidates, answer, i + 1)

\* inner loop (table.cpp 253-258): 1 if some candidate equals the answer
\* as passed by the caller, scanning from position i, stopping at the
\* first match
RECURSIVE MatchFrom(_, _, _)
MatchFrom(candidates, answer, i) ==
    IF i > Len(candidates) THEN 0
    ELSE IF candidates[i] = answer THEN 1
    ELSE MatchFrom(candidates, answer, i + 1)

\* outer loop (table.cpp 249-260): num_matches over columns column..num_cols
RECURSIVE CountMatches(_, _, _, _, _)
CountMatches(eng, queries, answers, num_probes, column) ==
    IF column > Len(queries) THEN 0
    ELSE MatchFrom(get_candidates_with_duplicates(eng, queries[column], num_probes),
                   answers[column], 1)
         + CountMatches(eng, queries, answers, num_probes, column + 1)

\* the returned double, kept as the pair <<num_matches, num_cols>>;
\* <<0, 0>> is the NaN of 0.0 / 0.0
computeProbePrecision(eng, queries, answers, num_probes) ==
    <<CountMatches(eng, queries, answers, num_probes, 1), Len(queries)>>

\* precision >= target_precision on doubles: false when precision is NaN
PrecisionGE(precision, target) ==
    IF precision[2] = 0 THEN FALSE
    ELSE precision[1] * target[2] >= target[1] * precision[2]

\* precision < target_precision on doubles: false when precision is NaN
PrecisionLT(precision, target) ==
    IF precision[2] = 0 THEN FALSE
    ELSE precision[1] * target[2] < target[1] * precision[2]

---------------------------------------------------------------------------
(* LshParameterSetter: label tables and the configuration *)

\* labels a caller may pass; "bogus" stands for every string in no table
Labels == {"negative_inner_product", "euclidean_squared", "flat_hash_table",
           "hyperplane", "bogus"}

\* const distancesMap LshParameterSetter::distances
distances ==
    [unknown |-> "Unknown",
     negative_inner_product |-> "NegativeInnerProduct",
     euclidean_squared |-> "EuclideanSquared"]

\* const storageTypesMap LshParameterSetter::storageTypes
storageTypes ==
    [unknown |-> "Unknown",
     flat_hash_table |-> "FlatHashTable",
     bit_packed_flat_hash_table |-> "BitPackedFlatHashTable",
     stl_hash_table |-> "STLHashTable",
     linear_probing_hash_table |-> "LinearProbingHashTable"]

\* const familiesMap LshParameterSetter::families
families ==
    [unknown |-> "Unknown",
     hyperplane |-> "Hyperplane",
     cross_polytope |-> "CrossPolytope"]

\* a lookup that falls back to some concrete entry instead of def
getConcrete(m, key, def) ==
    IF key \in DOMAIN m THEN m[key]
    ELSE CHOOSE v \in {m[k] : k \in DOMAIN m} : v # def

\* template get(m, key, def): the entry of key, def when key is missing
get(m, key, def) ==
    IF key \in DOMAIN m THEN m[key] ELSE def

\* falconn::get_default_parameters<Point>(n, d, distance, true): the
\* engine's defaults, a function of its arguments; dimension and
\* distance_function are copied from the arguments
RECURSIVE HashBits(_, _)
HashBits(dataset_size, bits) ==
    IF bits < 30 /\ 2 ^ (bits + 2) <= dataset_size
    THEN HashBits(dataset_size, bits + 1)
    ELSE bits

get_default_parameters(n, d, distance) ==
    [dimension |-> d,
     lsh_family |-> "CrossPolytope",
     distance_function |-> distance,
     k |-> HashBits(n, 1),
     l |-> 10,
     storage_hash_table |-> "BitPackedFlatHashTable",
     num_rotations |-> 1,
     seed |-> 409556018,
     num_setup_threads |-> 0,
     last_cp_dimension |-> d,
     feature_hashing_dimension |-> -1]

\* a reset that only replaces the metric and keeps the other fields
withDefaultsKeeping(s, distance) ==
    [s EXCEPT !._p.distance_function = get(distances, distance, "Unknown")]

\* LshParameterSetter::withDefaults(distance) on the builder s
withDefaults(s, distance) ==
    [s EXCEPT !._p = get_default_parameters(s._n, s._d,
                                           get(distances, distance, "Unknown"))]

\* LshParameterSetter::LshParameterSetter(n, d) : _n(n), _d(d) { withDefaults(); }
LshParameterSetter(n, d) ==
    withDefaults([exists |-> TRUE, _n |-> n, _d |-> d,
                  _p |-> get_default_parameters(0, 0, "Unknown")],
                 "euclidean_squared")

\* LshParameterSetter::params(): a copy of _p
params(s) == s._p

\* LshParameterSetter::distance(label)
distance(s, label) ==
    [s EXCEPT !._p.distance_function = get(distances, label, "Unknown")]

\* LshParameterSetter::numHashFunctions(funcs)
numHashFunctions(s, funcs) == [s EXCEPT !._p.k = funcs]

\* LshParameterSetter::numHashTables(tables)
numHashTables(s, tables) == [s EXCEPT !._p.l = tables]

\* LshParameterSetter::storage(label)
storage(s, label) ==
    [s EXCEPT !._p.storage_hash_table = get(storageTypes, label, "Unknown")]

\* LshParameterSetter::family(label)
family(s, label) ==
    [s EXCEPT !._p.lsh_family = get(families, label, "Unknown")]

\* LshParameterSetter::rotations(numRotations)
rotations(s, numRotations) == [s EXCEPT !._p.num_rotations = numRotations]

\* no builder constructed yet
NoSetter ==
    [exists |-> FALSE, _n |-> 0, _d |-> 0,
     _p |-> get_default_parameters(0, 0, "Unknown")]

---------------------------------------------------------------------------
(* LshNnTable: the index object and the engine's table behind _table *)

\* dimension of the data set used where an index is already built
DataDim == 2

\* falconn::construct_table: the engine rejects a configuration with an
\* unset enumeration or a non-positive size
EngineAccepts(p) ==
    /\ p.dimension >= 1
    /\ p.k >= 1
    /\ p.l >= 1
    /\ p.num_rotations >= 1
    /\ p.lsh_family # "Unknown"
    /\ p.distance_function # "Unknown"
    /\ p.storage_hash_table # "Unknown"

\* no index constructed
NoTable ==
    [exists |-> FALSE, _params |-> get_default_parameters(0, 0, "Unknown"),
     _n_points |-> 0, num_probes |-> 0, max_num_candidates |-> -1]

\* the index after LshNnTable(tDataMatrix, params) returned: _params and
\* _n_points as assigned by the constructor, the engine's runtime knobs at
\* their defaults (one probe per table, no candidate cap)
NewTable(_params, _n_points) ==
    [exists |-> TRUE, _params |-> _params, _n_points |-> _n_points,
     num_probes |-> _params.l, max_num_candidates |-> -1]

\* the record of the last call made by the caller: its name, the error it
\* raised ("none": it returned), its arguments, the value returned, the
\* engine's raw answer and the engine calls it made
NoCall ==
    [op |-> "none", error |-> "none", args |-> <<>>, result |-> <<>>,
     raw |-> <<>>, calls |-> <<>>]

Call(op, error, args, result, raw, calls) ==
    [op |-> op, error |-> error, args |-> args, result |-> result,
     raw |-> raw, calls |-> calls]

\* facts about the history: the builder's configuration when the
\* constructor was last entered, and the number of builder methods called
NoBuilt == [params |-> get_default_parameters(0, 0, "Unknown"), calls |-> 0]

---------------------------------------------------------------------------
(* LshNnTable::tuneNumProbes, one step per loop iteration *)

\* target precisions as fractions <<numerator, denominator>>
Targets == {<<0, 1>>, <<1, 2>>, <<1, 1>>}

\* validation sets: query columns with one answer (a caller-side, 1-based
\* point index) per column
QuerySeqs == {<<>>, <<1>>, <<1, 2>>}

ValidationSets ==
    UNION {{[queries |-> qs, answers |-> as] :
               as \in [1..Len(qs) -> 1..NumPoints]} : qs \in QuerySeqs}

\* max_iterations: the default -1 (no limit) or a finite budget
Budgets == {kNoLimit} \cup (0..MaxBudget)

\* the frame of tuneNumProbes when no call is active
IdleTune ==
    [pc |-> "idle", queries |-> <<>>, answers |-> <<>>,
     target_precision |-> <<0, 1>>, init_num_probes |-> 0,
     max_iterations |-> 0, original_num_probes |-> 0,
     num_probes |-> 0, iter |-> 0, lo |-> 0, mid |-> 0,
     hi0 |-> 0, probed |-> <<>>]

\* nothing but tuneNumProbes runs while it is active
Quiescent == tune.pc = "idle"

\* table.cpp 286-288: entry
TuneEntry(f, original, vs, target, init, budget) ==
    [f EXCEPT !.pc = "exp",
              !.queries = vs.queries, !.answers = vs.answers,
              !.target_precision = target, !.init_num_probes = init,
              !.max_iterations = budget,
              !.original_num_probes = original,
              !.num_probes = init, !.iter = budget]

\* table.cpp 302: lo = num_probes/2
RefineLo(num_probes) == num_probes \div 2

\* the largest value of the int num_probes, scaled down from 2^31 - 1 to
\* the largest probe count the engine tables are enumerated for
IntMax == MaxProbes

\* a doubling loop that does not count its iterations
ExpUpdateUncounted(f, pass) ==
    IF pass
    THEN [f EXCEPT !.pc = "refine", !.lo = RefineLo(f.num_probes),
                   !.hi0 = f.num_probes,
                   !.probed = Append(f.probed, f.num_probes)]
    ELSE IF f.num_probes * 2 > IntMax
    THEN [f EXCEPT !.pc = "undefined",
                   !.probed = Append(f.probed, f.num_probes)]
    ELSE [f EXCEPT !.num_probes = f.num_probes * 2,
                   !.probed = Append(f.probed, f.num_probes)]

\* table.cpp 290-296: one iteration of the doubling loop, given whether
\* the precision met the target. num_probes *= 2 on a signed int whose
\* double exceeds IntMax is undefined behaviour: the call is then in no
\* defined state ("undefined": it may produce any value, fail, or never
\* return), and the model follows it no further.
ExpUpdate(f, pass) ==
    IF pass
    THEN [f EXCEPT !.pc = "refine", !.lo = RefineLo(f.num_probes),
                   !.hi0 = f.num_probes,
                   !.probed = Append(f.probed, f.num_probes)]
    ELSE IF f.num_probes * 2 > IntMax
    THEN [f EXCEPT !.pc = "undefined",
                   !.probed = Append(f.probed, f.num_probes)]
    ELSE [f EXCEPT !.num_probes = f.num_probes * 2, !.iter = f.iter - 1,
                   !.probed = Append(f.probed, f.num_probes)]

\* table.cpp 303: mid = (num_probes + lo) / 2
Midpoint(lo, num_probes) == (num_probes + lo) \div 2

\* a refinement that evaluates at the lower end of the interval
RefineProbeLo(f, mid) == f.lo

\* table.cpp 304: the probe count at which the refinement loop evaluates
\* the precision
RefineProbe(f, mid) == f.num_probes

\* the decision with its branches exchanged
RefineUpdateSwapped(f, mid, pass) ==
    IF pass
    THEN [f EXCEPT !.mid = mid, !.lo = mid]
    ELSE [f EXCEPT !.mid = mid, !.num_probes = mid]

\* table.cpp 306-310: the decision of one refinement iteration
RefineUpdate(f, mid, pass) ==
    IF pass
    THEN [f EXCEPT !.mid = mid, !.num_probes = mid]
    ELSE [f EXCEPT !.mid = mid, !.lo = mid]

\* table.cpp 313: setNumProbes(original_num_probes) before returning
ProbesOnReturn(original, current) == original

\* table.cpp 298-300: stop() leaves the probe count as last set
ProbesOnFailure(original, current) == current

TuneStart ==
    /\ Quiescent
    /\ table.exists
    /\ \E vs \in ValidationSets, target \in Targets,
          init \in 1..MaxInit, budget \in Budgets :
          /\ tune' = TuneEntry(IdleTune, table.num_probes, vs, target, init, budget)
          /\ last' = Call("tuneNumProbes", "running", <<>>, <<>>, <<>>, <<>>)
    /\ UNCHANGED <<setter, table, engine, built>>

ExpStep ==
    /\ tune.pc = "exp"
    /\ tune.iter # 0
    /\ LET precision == computeProbePrecision(engine, tune.queries,
                                              tune.answers, tune.num_probes)
           pass == PrecisionGE(precision, tune.target_precision)
       IN  /\ tune' = ExpUpdate(tune, pass)
           /\ table' = [table EXCEPT !.num_probes = tune.num_probes]
    /\ UNCHANGED <<setter, engine, last, built>>

TuneFail ==
    /\ tune.pc = "exp"
    /\ tune.iter = 0
    /\ tune' = [tune EXCEPT !.pc = "done"]
    /\ table' = [table EXCEPT !.num_probes =
                     ProbesOnFailure(tune.original_num_probes, table.num_probes)]
    /\ last' = Call("tuneNumProbes", "maximum iterations exceeded",
                    <<>>, <<>>, <<>>, <<>>)
    /\ UNCHANGED <<setter, engine, built>>

RefineStep ==
    /\ tune.pc = "refine"
    /\ tune.num_probes - tune.lo > 1
    /\ LET mid == Midpoint(tune.lo, tune.num_probes)
           at  == RefineProbe(tune, mid)
           precision == computeProbePrecision(engine, tune.queries,
                                              tune.answers, at)
           pass == PrecisionGE(precision, tune.target_precision)
       IN  /\ tune' = [RefineUpdate(tune, mid, pass) EXCEPT
                          !.probed = Append(tune.probed, at)]
           /\ table' = [table EXCEPT !.num_probes = at]
    /\ UNCHANGED <<setter, engine, last, built>>

TuneReturn ==
    /\ tune.pc = "refine"
    /\ ~(tune.num_probes - tune.lo > 1)
    /\ tune' = [tune EXCEPT !.pc = "done"]
    /\ table' = [table EXCEPT !.num_probes =
                     ProbesOnReturn(tune.original_num_probes, table.num_probes)]
    /\ last' = Call("tuneNumProbes", "none", <<>>, <<tune.num_probes>>,
                    <<>>, <<>>)
    /\ UNCHANGED <<setter, engine, built>>

\* the caller has taken the outcome of tuneNumProbes: its frame is gone
TuneLeave ==
    /\ tune.pc = "done"
    /\ tune' = IdleTune
    /\ last' = NoCall
    /\ UNCHANGED <<setter, table, engine, built>>

\* the calibrator on an index built from the default configuration
InitTune ==
    /\ setter = LshParameterSetter(NumPoints, DataDim)
    /\ table = NewTable(params(setter), NumPoints)
    /\ engine \in EngineTables
    /\ last = NoCall
    /\ tune = IdleTune
    /\ built = [params |-> params(setter), calls |-> 0]

NextTune ==
    TuneStart \/ ExpStep \/ TuneFail \/ RefineStep \/ TuneReturn \/ TuneLeave

Spec == InitTune /\ [][NextTune]_vars

\* the statements of a running call: once tuneNumProbes is entered, the
\* single thread executes its next statement
TuneRuns == ExpStep \/ TuneFail \/ RefineStep \/ TuneReturn

\* one call of tuneNumProbes on the freshly built index, followed to its
\* end (what an earlier call left behind is only the probe count to
\* restore, which no loop condition reads)
NextRun == TuneStart \/ TuneRuns

\* one call, always executing its next statement
SpecRun == InitTune /\ [][NextRun]_vars /\ WF_vars(TuneRuns)

---------------------------------------------------------------------------
(* The parameter builder and the construction of the index *)

\* point counts and dimensions passed to LshParameterSetter(n, d)
PointCounts == {0, NumPoints}
Dimensions == {0, DataDim}

\* integers passed to numHashFunctions, numHashTables and rotations
IntInputs == {2}

\* row counts of the data matrices passed to LshNnTable(tDataMatrix, params)
RowCounts == {DataDim, DataDim + 1}

\* only the builder and the constructor run in this part
NoTune == tune = IdleTune /\ UNCHANGED <<tune, engine>>

\* LshParameterSetter(n, d): the engine computes the defaults and the
\* builder exists
CreateSetter ==
    /\ ~setter.exists
    /\ ~table.exists
    /\ \E n \in PointCounts, d \in Dimensions :
          /\ setter' = LshParameterSetter(n, d)
          /\ last' = Call("LshParameterSetter", "none", <<n, d>>, <<>>, <<>>,
                          <<[fn |-> "get_default_parameters", arg |-> <<n, d>>]>>)
    /\ UNCHANGED <<table, built>>
    /\ NoTune

\* LshParameterSetter(n, d) on values the engine may refuse: whatever the
\* engine raises leaves the caller without a builder
CreateSetterEngineRaises ==
    /\ ~setter.exists
    /\ ~table.exists
    /\ \E n \in PointCounts, d \in Dimensions :
          /\ n <= 0 \/ d <= 0
          /\ last' = Call("LshParameterSetter", "engine error", <<n, d>>, <<>>,
                          <<>>,
                          <<[fn |-> "get_default_parameters", arg |-> <<n, d>>]>>)
    /\ UNCHANGED <<setter, table, built>>
    /\ NoTune

\* _params referring to the builder's structure instead of copying it
TableAliasingSetter(tbl, s) ==
    IF tbl.exists THEN [tbl EXCEPT !._params = s._p] ELSE tbl

\* LshNnTable::_params is a member held by value (table.h 48): a call on
\* the builder does not reach the index
TableAfterSetterCall(tbl, s) == tbl

\* a call of a builder method: the builder becomes s
SetterCall(op, arg, s) ==
    /\ built.calls < MaxSetterCalls
    /\ setter' = s
    /\ table' = TableAfterSetterCall(table, s)
    /\ last' = Call(op, "none", <<arg>>, <<>>, <<>>, <<>>)
    /\ built' = [built EXCEPT !.calls = built.calls + 1]
    /\ NoTune

WithDefaults ==
    /\ setter.exists
    /\ \E label \in Labels :
          SetterCall("withDefaults", label, withDefaults(setter, label))

Distance ==
    /\ setter.exists
    /\ \E label \in Labels :
          SetterCall("distance", label, distance(setter, label))

NumHashFunctions ==
    /\ setter.exists
    /\ \E funcs \in IntInputs :
          SetterCall("numHashFunctions", funcs, numHashFunctions(setter, funcs))

NumHashTables ==
    /\ setter.exists
    /\ \E tables \in IntInputs :
          SetterCall("numHashTables", tables, numHashTables(setter, tables))

Storage ==
    /\ setter.exists
    /\ \E label \in Labels :
          SetterCall("storage", label, storage(setter, label))

Family ==
    /\ setter.exists
    /\ \E label \in Labels :
          SetterCall("family", label, family(setter, label))

Rotations ==
    /\ setter.exists
    /\ \E r \in IntInputs :
          SetterCall("rotations", r, rotations(setter, r))

\* the test accepting every matrix with enough rows
DimensionTooSmall(nrow, _params) == nrow < _params.dimension

\* table.cpp 43: the constructor's test of the data matrix
DimensionMismatch(nrow, _params) == nrow # _params.dimension

\* table.cpp 40: _params = params.params()
CtorParams(s) == params(s)

\* LshNnTable::dimension()
dimension(tbl) == tbl._params.dimension

\* LshNnTable(tDataMatrix, params): table.cpp 38-55
Construct ==
    /\ setter.exists
    /\ ~table.exists
    /\ \E nrow \in RowCounts :
          LET _params == CtorParams(setter)
              _n_points == NumPoints
              call == [fn |-> "construct_table", arg |-> _params]
          IN  /\ built' = [built EXCEPT !.params = setter._p]
              /\ IF DimensionMismatch(nrow, _params)
                 THEN /\ table' = NoTable
                      /\ last' = Call("LshNnTable", "dimension mismatch",
                                      <<nrow, _n_points>>, <<>>, <<>>, <<>>)
                 ELSE IF ~EngineAccepts(_params)
                 THEN /\ table' = NoTable
                      /\ last' = Call("LshNnTable", "engine error",
                                      <<nrow, _n_points>>, <<>>, <<>>, <<call>>)
                 ELSE /\ table' = NewTable(_params, _n_points)
                      /\ last' = Call("LshNnTable", "none",
                                      <<nrow, _n_points>>, <<>>, <<>>, <<call>>)
    /\ UNCHANGED setter
    /\ NoTune

InitParams ==
    /\ setter = NoSetter
    /\ table = NoTable
    /\ engine = [from |-> 1, gap |-> 0, dip |-> 0]
    /\ last = NoCall
    /\ tune = IdleTune
    /\ built = NoBuilt

NextParams ==
    \/ CreateSetter
    \/ CreateSetterEngineRaises
    \/ WithDefaults
    \/ Distance
    \/ NumHashFunctions
    \/ NumHashTables
    \/ Storage
    \/ Family
    \/ Rotations
    \/ Construct

SpecParams == InitParams /\ [][NextParams]_vars

---------------------------------------------------------------------------
(* The queries and the runtime knobs of a built index *)

\* the engine's answers, decided by the candidates of the probing sequence
RECURSIVE Dedup(_, _)
Dedup(cands, seen) ==
    IF cands = <<>> THEN <<>>
    ELSE IF Head(cands) \in seen THEN Dedup(Tail(cands), seen)
    ELSE <<Head(cands)>> \o Dedup(Tail(cands), seen \cup {Head(cands)})

\* _table->get_unique_candidates(query, &result)
get_unique_candidates_of(eng, query, probes) ==
    Dedup(get_candidates_with_duplicates(eng, query, probes), {})

\* the candidates the engine ranks: at most max_num_candidates of them
\* (-1: no cap)
Ranked(eng, query, probes, cap) ==
    LET c == get_candidates_with_duplicates(eng, query, probes)
    IN  IF cap < 0 \/ cap >= Len(c) THEN c ELSE SubSeq(c, 1, cap)

\* distance of a data point to the query: its nearest point is at 1,
\* every other point at 2
Dist(query, point) == IF point = query THEN 1 ELSE 2

\* the unique ranked candidates by increasing distance
ByDistance(eng, query, probes, cap) ==
    LET u == Dedup(Ranked(eng, query, probes, cap), {})
    IN  SelectSeq(u, LAMBDA x : Dist(query, x) = 1)
        \o SelectSeq(u, LAMBDA x : Dist(query, x) = 2)

\* _table->find_nearest_neighbor(query): -1 when there is no candidate
nearest_of(eng, query, probes, cap) ==
    LET r == ByDistance(eng, query, probes, cap)
    IN  IF r = <<>> THEN <<-1>> ELSE <<Head(r)>>

\* _table->find_k_nearest_neighbors(query, k, &result)
k_nearest_of(eng, query, probes, cap, k) ==
    LET r == ByDistance(eng, query, probes, cap)
    IN  IF k >= Len(r) THEN r ELSE SubSeq(r, 1, k)

\* _table->find_near_neighbors(query, radius, &result)
near_of(eng, query, probes, cap, radius) ==
    SelectSeq(ByDistance(eng, query, probes, cap),
              LAMBDA x : Dist(query, x) <= radius)

\* table.cpp 85, 113, 140: the translation of an engine index
OneIndexed(index) == index + 1

\* table.cpp 109-113 and 136-140: assign, then transform with index + 1
Translated(raw) == [i \in 1..Len(raw) |-> OneIndexed(raw[i])]

\* table.cpp 161 and 183: assign only
Assigned(raw) == raw

\* query vectors: a query point and the length of the vector passed
QueryVectors == [id : Queries, len : {DataDim, DataDim + 1}]

\* k, radius, probe counts and candidate caps a caller passes
KValues == {-1, 0, 1, NumPoints, NumPoints + 1}
Radii == {0, 1, 2}
ProbeInputs == {0, 1, 2}
CapInputs == {-1, 1}

\* the engine reads _params.dimension coordinates from the vector it is
\* handed: with a vector of another length it answers for some point
SeenBy(q) == IF q.len = DataDim THEN {q.id} ELSE Queries

\* an engine call as recorded in last.calls
EngineCall(fn, arg) == [fn |-> fn, arg |-> arg]

QueryFrame ==
    /\ Quiescent
    /\ table.exists
    /\ UNCHANGED <<setter, engine, tune, built>>

\* find_nearest_neighbor(q): table.cpp 81-88
FindNearestNeighbor ==
    /\ QueryFrame
    /\ \E q \in QueryVectors : \E seen \in SeenBy(q) :
          LET raw == nearest_of(engine, seen, table.num_probes,
                                table.max_num_candidates)
          IN  last' = Call("find_nearest_neighbor", "none", <<q>>,
                           <<OneIndexed(raw[1])>>, raw,
                           <<EngineCall("find_nearest_neighbor", <<q>>)>>)
    /\ UNCHANGED table

\* find_k_nearest_neighbors(q, k): table.cpp 102-115; KeyVector(k) raises
\* std::length_error for a negative k
FindKNearestNeighbors ==
    /\ QueryFrame
    /\ \E q \in QueryVectors, k \in KValues : \E seen \in SeenBy(q) :
          IF k < 0
          THEN last' = Call("find_k_nearest_neighbors", "length_error",
                            <<q, k>>, <<>>, <<>>, <<>>)
          ELSE LET raw == k_nearest_of(engine, seen, table.num_probes,
                                       table.max_num_candidates, k)
               IN  last' = Call("find_k_nearest_neighbors", "none", <<q, k>>,
                                Translated(raw), raw,
                                <<EngineCall("find_k_nearest_neighbors", <<q, k>>)>>)
    /\ UNCHANGED table

\* find_near_neighbors(q, radius): table.cpp 129-142
FindNearNeighbors ==
    /\ QueryFrame
    /\ \E q \in QueryVectors, radius \in Radii : \E seen \in SeenBy(q) :
          LET raw == near_of(engine, seen, table.num_probes,
                             table.max_num_candidates, radius)
          IN  last' = Call("find_near_neighbors", "none", <<q, radius>>,
                           Translated(raw), raw,
                           <<EngineCall("find_near_neighbors", <<q, radius>>)>>)
    /\ UNCHANGED table

\* get_candidates(q): table.cpp 155-164
GetCandidates ==
    /\ QueryFrame
    /\ \E q \in QueryVectors : \E seen \in SeenBy(q) :
          LET raw == get_candidates_with_duplicates(engine, seen,
                                                    table.num_probes)
          IN  last' = Call("get_candidates", "none", <<q>>,
                           Assigned(raw), raw,
                           <<EngineCall("get_candidates_with_duplicates", <<q>>)>>)
    /\ UNCHANGED table

\* get_unique_candidates(q): table.cpp 177-186
GetUniqueCandidates ==
    /\ QueryFrame
    /\ \E q \in QueryVectors : \E seen \in SeenBy(q) :
          LET raw == get_unique_candidates_of(engine, seen, table.num_probes)
          IN  last' = Call("get_unique_candidates", "none", <<q>>,
                           Assigned(raw), raw,
                           <<EngineCall("get_unique_candidates", <<q>>)>>)
    /\ UNCHANGED table

\* setNumProbes(num_probes): table.cpp 197-200; the engine takes the value
SetNumProbes ==
    /\ QueryFrame
    /\ \E num_probes \in ProbeInputs :
          /\ table' = [table EXCEPT !.num_probes = num_probes]
          /\ last' = Call("setNumProbes", "none", <<num_probes>>, <<>>, <<>>,
                          <<EngineCall("set_num_probes", <<num_probes>>)>>)

\* setNumProbes(num_probes) with a value the engine refuses
SetNumProbesEngineRaises ==
    /\ QueryFrame
    /\ \E num_probes \in ProbeInputs :
          /\ num_probes <= 0
          /\ last' = Call("setNumProbes", "engine error", <<num_probes>>,
                          <<>>, <<>>,
                          <<EngineCall("set_num_probes", <<num_probes>>)>>)
    /\ UNCHANGED table

\* getNumProbes(): table.cpp 205-207
GetNumProbes ==
    /\ QueryFrame
    /\ last' = Call("getNumProbes", "none", <<>>, <<table.num_probes>>,
                    <<table.num_probes>>, <<EngineCall("get_num_probes", <<>>)>>)
    /\ UNCHANGED table

\* setMaxNumCandidates(num_candidates): table.cpp 215-218
SetMaxNumCandidates ==
    /\ QueryFrame
    /\ \E num_candidates \in CapInputs :
          /\ table' = [table EXCEPT !.max_num_candidates = num_candidates]
          /\ last' = Call("setMaxNumCandidates", "none", <<num_candidates>>,
                          <<>>, <<>>,
                          <<EngineCall("set_max_num_candidates", <<num_candidates>>)>>)

\* getMaxNumCandidates(): table.cpp 223-225
GetMaxNumCandidates ==
    /\ QueryFrame
    /\ last' = Call("getMaxNumCandidates", "none", <<>>,
                    <<table.max_num_candidates>>, <<table.max_num_candidates>>,
                    <<EngineCall("get_max_num_candidates", <<>>)>>)
    /\ UNCHANGED table

\* an index built from the default configuration; the engine tables that
\* differ within the probe counts a caller sets here
InitQuery ==
    /\ setter = LshParameterSetter(NumPoints, DataDim)
    /\ table = NewTable(params(setter), NumPoints)
    /\ engine \in {e \in EngineTables : e.from \in {1, 2, MaxProbes + 1}}
    /\ last = NoCall
    /\ tune = IdleTune
    /\ built = [params |-> params(setter), calls |-> 0]

NextQuery ==
    \/ FindNearestNeighbor
    \/ FindKNearestNeighbors
    \/ FindNearNeighbors
    \/ GetCandidates
    \/ GetUniqueCandidates
    \/ SetNumProbes
    \/ SetNumProbesEngineRaises
    \/ GetNumProbes
    \/ SetMaxNumCandidates
    \/ GetMaxNumCandidates

SpecQuery == InitQuery /\ [][NextQuery]_vars

---------------------------------------------------------------------------
(* Properties of the calibration, checked under Spec *)

\* the precision the index measures at probe count p on the validation
\* set of the current call
PrecisionAt(p) ==
    computeProbePrecision(engine, tune.queries, tune.answers, p)

\* the measured precision at p meets the target of the current call
Passes(p) == PrecisionGE(PrecisionAt(p), tune.target_precision)

\* the measured precision never decreases with the probe count
Monotone ==
    \A p \in 1..MaxProbes : \A q \in p..MaxProbes :
        PrecisionAt(p)[1] <= PrecisionAt(q)[1]

\* tuneNumProbes has returned a probe count
Returned == tune.pc = "done" /\ last.error = "none"

\* the probe counts p0 * 2^i, i = 0..B-1, of the current call
Doubled(i) == tune.init_num_probes * (2 ^ i)

\* C1: a returned probe count meets the target precision on the
\* validation set (non-empty set, monotone precision).
C1_ReturnedMeetsTarget ==
    (Returned /\ Len(tune.queries) > 0 /\ Monotone)
        => Passes(tune.num_probes)

\* C2 as stated: for every init_num_probes >= 1 no positive probe count
\* below the returned one meets the target (non-empty set, monotone
\* precision).
C2_NoSmallerPasses ==
    (Returned /\ Len(tune.queries) > 0 /\ Monotone)
        => \A p \in 1..(tune.num_probes - 1) : ~Passes(p)

\* C2 amended: the same, provided the precision at floor(h / 2) is below
\* the target, h being the first probe count that met the target in the
\* doubling phase (nothing to require when floor(h / 2) = 0).
C2_NoSmallerPassesAboveHalf ==
    (/\ Returned
     /\ Len(tune.queries) > 0
     /\ Monotone
     /\ (tune.hi0 \div 2 >= 1 => ~Passes(tune.hi0 \div 2)))
        => \A p \in 1..(tune.num_probes - 1) : ~Passes(p)

\* C2 witness: a call that doubled at least twice, bisected, and returned
\* a probe count that meets the target while the one below it does not
C2_Witness ==
    /\ Returned
    /\ Len(tune.queries) > 0
    /\ Monotone
    /\ tune.hi0 >= 4
    /\ ~Passes(tune.hi0 \div 2)
    /\ tune.mid > 0
    /\ Passes(tune.num_probes)
    /\ ~Passes(tune.num_probes - 1)

\* C3: after every call, returned or failed, the probe count of the index
\* is what it was on entry.
C3_ProbesRestored ==
    tune.pc = "done" => table.num_probes = tune.original_num_probes

\* C4: a call with no validation query fails with EmptyValidationSet and
\* with nothing else.
C4_EmptyValidationSetRejected ==
    (tune.pc = "done" /\ Len(tune.queries) = 0)
        => last.error = "EmptyValidationSet"

\* C5: with a finite budget B >= 1 the call fails with the iteration
\* error exactly when the precision is below the target at each of
\* p0 * 2^i, i = 0..B-1.
C5_FailsIffAllBelow ==
    (tune.pc = "done" /\ tune.max_iterations >= 1)
        => ((last.error = "maximum iterations exceeded")
              <=> \A i \in 0..(tune.max_iterations - 1) :
                     PrecisionLT(PrecisionAt(Doubled(i)), tune.target_precision))

---------------------------------------------------------------------------
(* Properties of the queries, checked under SpecQuery *)

\* the calls that return point indices
QueryOps == {"find_nearest_neighbor", "find_k_nearest_neighbors",
             "find_near_neighbors", "get_candidates", "get_unique_candidates"}

\* C6: every point index returned to the caller is the engine's 0-based
\* index plus one, for each of the five queries.
C6_IndicesOneBased ==
    (last.op \in QueryOps /\ last.error = "none")
        => last.result = Translated(last.raw)

\* the last call had a structurally invalid argument: a query vector of
\* the wrong length, a k outside 1..size(), a probe count below 1
InvalidCall ==
    \/ last.op \in QueryOps /\ last.args[1].len # dimension(table)
    \/ /\ last.op = "find_k_nearest_neighbors"
       /\ (last.args[2] <= 0 \/ last.args[2] > table._n_points)
    \/ last.op = "setNumProbes" /\ last.args[1] <= 0

\* C8: a structurally invalid call is rejected before any engine call.
C8_InvalidRejectedBeforeEngine ==
    InvalidCall => (last.error # "none" /\ last.calls = <<>>)

---------------------------------------------------------------------------
(* Properties of the builder and the constructor, checked under SpecParams *)

\* C7: the constructor fails with the dimension mismatch exactly when the
\* row count differs from the dimension of the builder's configuration;
\* then the engine is not called and no index exists; otherwise
\* construct_table is called once, with the configuration the builder
\* held when the constructor was entered.
C7_MismatchExactly ==
    last.op = "LshNnTable" =>
        /\ (last.error = "dimension mismatch")
              <=> (last.args[1] # built.params.dimension)
        /\ last.error = "dimension mismatch"
              => (last.calls = <<>> /\ ~table.exists)
        /\ last.error # "dimension mismatch"
              => last.calls = <<EngineCall("construct_table", built.params)>>

\* C7 witness: a constructor call refused for its row count
C7_Witness ==
    /\ last.op = "LshNnTable"
    /\ last.error = "dimension mismatch"
    /\ last.args[1] > built.params.dimension
    /\ built.params.dimension >= 1

\* C9: creating a builder with a non-positive point count or dimension
\* fails with InvalidDimension and leaves no builder.
C9_InvalidSizesRejected ==
    (/\ last.op = "LshParameterSetter"
     /\ (last.args[1] <= 0 \/ last.args[2] <= 0))
        => (last.error = "InvalidDimension" /\ ~setter.exists)

\* C10: the configuration of a built index, and its dimension(), are those
\* the builder held when the constructor was entered, whatever is called
\* on the builder afterwards.
C10_SnapshotKept ==
    table.exists =>
        /\ table._params = built.params
        /\ dimension(table) = built.params.dimension

\* C10 witness: a built index whose builder has been changed since
C10_Witness ==
    /\ table.exists
    /\ last.op \in {"withDefaults", "distance", "numHashFunctions",
                    "numHashTables", "storage", "family", "rotations"}
    /\ setter._p # table._params

---------------------------------------------------------------------------
(* Properties of the label setters and of withDefaults, under SpecParams *)

\* the field a label setter owns and the closed table it reads
LabelSetters ==
    [distance |-> [field |-> "distance_function", map |-> distances],
     storage  |-> [field |-> "storage_hash_table", map |-> storageTypes],
     family   |-> [field |-> "lsh_family", map |-> families]]

\* the enum value a label stands for in a closed table
Mapped(map, label) ==
    IF label \in DOMAIN map THEN map[label] ELSE "Unknown"

\* a step that is a completed call of the builder operation op
SetterStep(op) ==
    /\ built'.calls = built.calls + 1
    /\ last'.op = op

\* C11: a label setter sets its own field to the value mapped from the
\* label, or to Unknown for a label outside the table, does not fail, and
\* leaves every other configuration field, the point count and the
\* dimension unchanged
C11_LabelSetterFrame ==
    [][\A op \in DOMAIN LabelSetters :
          SetterStep(op) =>
              LET own == LabelSetters[op]
                  label == last'.args[1]
              IN  /\ last'.error = "none"
                  /\ setter'._p[own.field] = Mapped(own.map, label)
                  /\ \A f \in DOMAIN setter._p \ {own.field} :
                         setter'._p[f] = setter._p[f]
                  /\ setter'._n = setter._n
                  /\ setter'._d = setter._d
                  /\ setter'.exists = setter.exists]_vars

\* a label of another table was passed to storage and gave Unknown, after
\* an earlier call had changed the number of hash functions
C11_Witness ==
    /\ last.op = "storage"
    /\ last.args[1] = "hyperplane"
    /\ setter._p.storage_hash_table = "Unknown"
    /\ setter._p.k \in IntInputs
    /\ setter._p.k # get_default_parameters(setter._n, setter._d,
                                            "Unknown").k

\* C12: after withDefaults(label) the configuration equals the engine
\* defaults for the stored point count, the stored dimension and the
\* metric of the label (Unknown for an unrecognized label), whatever
\* setters were called before it, and the call does not fail
C12_WithDefaultsResets ==
    last.op = "withDefaults" =>
        /\ last.error = "none"
        /\ setter._p = get_default_parameters(setter._n, setter._d,
                            Mapped(distances, last.args[1]))

\* the first builder call set two hash functions, the index was built
\* from that configuration, and the second call was withDefaults with an
\* unrecognized label: the builder is back at the defaults
C12_Witness ==
    /\ last.op = "withDefaults"
    /\ built.calls = 2
    /\ table.exists
    /\ table._params.k \in IntInputs
    /\ table._params.k # setter._p.k
    /\ last.args[1] = "bogus"
    /\ setter._p.distance_function = "Unknown"

---------------------------------------------------------------------------
(* Properties of the refinement phase and of the precision evaluator,
   checked under Spec *)

\* a step that is one iteration of the refinement loop
RefineIteration ==
    /\ tune.pc = "refine"
    /\ tune'.pc = "refine"
    /\ Len(tune'.probed) = Len(tune.probed) + 1

\* C14: each refinement iteration evaluates the precision at the midpoint
\* mid = floor((lo + hi) / 2) and decides on that result: hi becomes mid
\* when the precision at mid meets the target, otherwise lo becomes mid
C14_MidpointDecides ==
    [][RefineIteration =>
          LET mid == (tune.lo + tune.num_probes) \div 2
          IN  /\ tune'.probed[Len(tune'.probed)] = mid
              /\ IF Passes(mid)
                 THEN tune'.num_probes = mid /\ tune'.lo = tune.lo
                 ELSE tune'.lo = mid /\ tune'.num_probes = tune.num_probes]_vars

\* the number of evaluations of the doubling phase: the position of the
\* first passing probe count hi0 in the evaluated probe counts
ExpEvaluations ==
    CHOOSE n \in 1..Len(tune.probed) :
        /\ tune.probed[n] = tune.hi0
        /\ \A k \in 1..(n - 1) : tune.probed[k] # tune.hi0

\* C15: with hi0 the first passing probe count of the doubling phase and
\* lo0 = hi0 / 2, the refinement keeps lo0 <= lo < hi <= hi0, evaluates
\* the precision only at probe counts in (lo0, hi0], and returns a probe
\* count in (lo0, hi0]
C15_BracketContainment ==
    LET hi0 == tune.hi0
        lo0 == tune.hi0 \div 2
    IN  /\ tune.pc = "refine" =>
               /\ lo0 <= tune.lo
               /\ tune.lo < tune.num_probes
               /\ tune.num_probes <= hi0
        /\ (tune.pc = "refine" \/ Returned) =>
               \A i \in (ExpEvaluations + 1)..Len(tune.probed) :
                   lo0 < tune.probed[i] /\ tune.probed[i] <= hi0
        /\ Returned =>
               lo0 < last.result[1] /\ last.result[1] <= hi0

\* the refinement has moved both ends of the bracket and has returned
C15_Witness ==
    /\ Returned
    /\ Len(tune.probed) >= ExpEvaluations + 2
    /\ tune.lo > tune.hi0 \div 2
    /\ last.result[1] < tune.hi0

\* the raw candidates of validation query i at probe count p
RawCandidates(i, p) ==
    get_candidates_with_duplicates(engine, tune.queries[i], p)

\* the validation queries whose paired answer occurs among their own raw
\* candidates at probe count p
Answered(p) ==
    {i \in 1..Len(tune.queries) :
        \E j \in 1..Len(RawCandidates(i, p)) :
            RawCandidates(i, p)[j] = tune.answers[i]}

\* C16: on a validation set of m >= 1 queries the precision evaluated at
\* p is c / m, c the number of queries whose paired answer index occurs at
\* least once among that query's raw candidates at p (a query counts
\* once), so it lies in [0, 1]; and the evaluation leaves the probe count
\* of the index at p. Checked at every probe count a call evaluates.
C16_PrecisionIsAnsweredFraction ==
    (/\ tune.pc \in {"exp", "refine"}
     /\ Len(tune.queries) >= 1
     /\ Len(tune.probed) > 0) =>
        LET p == tune.probed[Len(tune.probed)]
            precision == PrecisionAt(p)
        IN  /\ precision = <<Cardinality(Answered(p)), Len(tune.queries)>>
            /\ 0 <= precision[1]
            /\ precision[1] <= precision[2]
            /\ table.num_probes = p

\* two validation queries were evaluated at a probe count where the
\* answer of the first occurs twice among its candidates and the answer of
\* the second does not occur among its own candidates, though it occurs
\* among those of the first: the precision is 1/2
C16_Witness ==
    /\ tune.pc \in {"exp", "refine"}
    /\ Len(tune.queries) = 2
    /\ Len(tune.probed) > 0
    /\ LET p == tune.probed[Len(tune.probed)]
       IN  /\ table.num_probes = p
           /\ Cardinality({j \in 1..Len(RawCandidates(1, p)) :
                  RawCandidates(1, p)[j] = tune.answers[1]}) = 2
           /\ 2 \notin Answered(p)
           /\ \E j \in 1..Len(RawCandidates(1, p)) :
                  RawCandidates(1, p)[j] = tune.answers[2]
           /\ PrecisionAt(p) = <<1, 2>>

---------------------------------------------------------------------------
(* Termination of the calibration, checked under SpecRun *)

\* C13: every calibration run terminates: a call of tuneNumProbes in its
\* doubling or refinement loop eventually returns a probe count or fails
\* with its error, for every validation set, target, initial probe count
\* and budget, the unbounded budget -1 included
C13_EveryRunTerminates ==
    (tune.pc \in {"exp", "refine"}) ~> (tune.pc = "done")

\* the doubling loop of the current call has a bound: its budget B is
\* finite and p0 * 2^B is an int, or some doubled probe count that is an
\* int meets the target
DoublingBounded ==
    \/ /\ tune.max_iterations >= 0
       /\ Doubled(tune.max_iterations) <= IntMax
    \/ \E i \in 0..IntMax : Doubled(i) <= IntMax /\ Passes(Doubled(i))

\* C13, amended: a call whose doubling loop has a bound, and every call
\* that has reached its refinement loop, eventually returns a probe count
\* or fails with its error
C13_BoundedRunTerminates ==
    (\/ tune.pc = "exp" /\ DoublingBounded
     \/ tune.pc = "refine") ~> (tune.pc = "done")

\* a call with the unbounded budget has returned after at least two
\* doublings and a refinement iteration
C13_Witness ==
    /\ Returned
    /\ tune.max_iterations = kNoLimit
    /\ ExpEvaluations >= 3
    /\ Len(tune.probed) > ExpEvaluations

=============================================================================
